---- MODULE Spec2Model ----
(***************************************************************************)
(* Admission lifecycle of the HIS ER backend: POST /admissions (intake in  *)
(* one PostgreSQL transaction) and PATCH /admissions/:id/status, run by    *)
(* concurrent requests against the tables of db/init.sql.  The database    *)
(* is PostgreSQL at its default isolation level (READ COMMITTED): a        *)
(* statement sees the rows committed when it runs plus the rows written by *)
(* its own transaction; an INSERT whose unique key is held by a row of a   *)
(* transaction still in progress waits for that transaction to end.        *)
(***************************************************************************)
EXTENDS Integers, Sequences, FiniteSets, TLC

VARIABLES patients, admissions, patSeq, admSeq, clockYear, now, started, req, sent, alloc

vars == <<patients, admissions, patSeq, admSeq, clockYear, now, started, req, sent, alloc>>

(* ------------------------------ bounds --------------------------------- *)

\* request slots: how many requests can be in flight at the same time
NSlots == 2
\* how many requests arrive in a run
MaxReq == 2
\* how many times the calendar year changes in a run
MaxNewYear == 1
\* width of each window of row counts the bracelet formatter is applied to
AllocSpan == 6

(* ------------------------- values of the schema ------------------------ *)

\* the calendar year in which the database was seeded
SeedYear == 2025

\* CREATE TYPE user_role
user_role == {"DOC", "INF", "AMM"}
\* CREATE TYPE admission_status
admission_status == {"ATT", "VIS", "OBI", "RIC", "DIM"}
\* CREATE TYPE triage_color
triage_color == {"ROSSO", "ARANCIONE", "AZZURRO", "VERDE", "BIANCO"}

\* SQL NULL / a JavaScript undefined sent as a query parameter
NULL == "NULL"

(* ----------------------- strings and formatting ------------------------ *)

DigitChars == <<"0", "1", "2", "3", "4", "5", "6", "7", "8", "9">>

\* String(n) for a non-negative integer: its decimal digits, no padding
RECURSIVE ToDigits(_)
ToDigits(n) ==
    IF n < 10 THEN <<DigitChars[n + 1]>>
    ELSE ToDigits(n \div 10) \o <<DigitChars[(n % 10) + 1]>>

DigitValue(c) == CHOOSE d \in 0..9 : DigitChars[d + 1] = c

\* Number.parseInt(s) for a string of decimal digits
RECURSIVE ParseInt(_)
ParseInt(s) ==
    IF Len(s) = 0 THEN 0
    ELSE 10 * ParseInt(SubSeq(s, 1, Len(s) - 1)) + DigitValue(s[Len(s)])

\* String.prototype.padStart(width, fill): fills on the left up to width,
\* and returns the string unchanged when it is already that long or longer
RECURSIVE padStart(_, _, _)
padStart(s, width, fill) ==
    IF Len(s) >= width THEN s ELSE padStart(<<fill>> \o s, width, fill)

\* the template literal `${year}-%` handed to LIKE
YearPattern(year) == ToDigits(year) \o <<"-">>

\* the count taken over the bracelets of every year
LikeAnyYear(b, year) == TRUE

\* braccialetto LIKE `${year}-%`: the value starts with the year and a dash
Like(b, year) ==
    LET p == YearPattern(year)
    IN  Len(b) >= Len(p) /\ SubSeq(b, 1, Len(p)) = p

\* width the sequence number is padded to
PadWidth == 4

\* nextNum from the text of count(*), as the handler computes it
NextNum(countText) == ParseInt(countText) + 1

\* `${year}-${String(nextNum).padStart(4, '0')}`
Braccialetto(year, nextNum) ==
    ToDigits(year) \o <<"-">> \o padStart(ToDigits(nextNum), PadWidth, "0")

(* ------------------------------ the tables ----------------------------- *)

\* a row of patients: the demographic columns are carried as one value
PatientRow(id, cf, anagrafica) ==
    [id |-> id, codice_fiscale |-> cf, anagrafica |-> anagrafica]

\* a row of admissions
AdmissionRow(id, patientId, braccialetto, ts, stato, colore) ==
    [id |-> id, patient_id |-> patientId, braccialetto |-> braccialetto,
     data_ora_ingresso |-> ts, stato |-> stato, codice_colore |-> colore]

\* B. Pazienti
SeedPatients ==
    { PatientRow(1, "RSSMRA80E20H501U", "Mario Rossi"),
      PatientRow(2, "BNCLRA92S55H501K", "Laura Bianchi"),
      PatientRow(3, "VRDGPP55C10H501W", "Giuseppe Verdi") }

\* TO_CHAR(CURRENT_DATE, 'YYYY') || '-000n'
SeedBraccialetto(n) == ToDigits(SeedYear) \o <<"-", "0", "0", "0">> \o ToDigits(n)

\* C. Accessi
SeedAdmissions ==
    { AdmissionRow(1, 1, SeedBraccialetto(1), 0, "ATT", "ROSSO"),
      AdmissionRow(2, 2, SeedBraccialetto(2), 0, "VIS", "ARANCIONE") }

(* ------------------------------ requests ------------------------------- *)

Slots == 1..NSlots

\* request bodies of POST /admissions: natural key, demographics, triage
\* color, and a stato field the handler does not read
Body(cf, anagrafica, colore, stato) ==
    [codiceFiscale |-> cf, anagrafica |-> anagrafica, codiceColore |-> colore,
     stato |-> stato]

\* the POST requests tried: the role of the verified token and the body
PostRequest(role, body) == [role |-> role, body |-> body]

PostRequests ==
    { \* a seeded patient comes back, the form filled in with other demographics
      PostRequest("DOC", Body("RSSMRA80E20H501U", "Mario Rossi, Via Milano", "VERDE", NULL)),
      \* a patient not yet on file
      PostRequest("INF", Body("ABC123", "Anna Neri", "ROSSO", NULL)),
      \* the same natural key, other demographics, and a stato field
      PostRequest("DOC", Body("ABC123", "Anna Bianchi", "ROSSO", "DIM")),
      \* a color that is not a label of triage_color
      PostRequest("INF", Body("ABC123", "Anna Neri", "VIOLA", NULL)),
      \* administrative staff
      PostRequest("AMM", Body("ABC123", "Anna Neri", "ROSSO", NULL)) }

NoBody ==
    [codiceFiscale |-> NULL, anagrafica |-> NULL, codiceColore |-> NULL, stato |-> NULL]

\* a path segment :id that is not the text of an integer
BadId == -1

\* values of nuovoStato in the body of PATCH /admissions/:id/status
NuoviStati == admission_status \cup {"XXX"}

Blank ==
    [pc |-> "idle", kind |-> "none", role |-> NULL, body |-> NoBody,
     id |-> 0, nuovoStato |-> NULL,
     patientId |-> 0, year |-> 0, braccialetto |-> <<>>, ts |-> 0,
     pendP |-> {}, pendA |-> {}, attempts |-> 0, applied |-> 0,
     begins |-> 0, ends |-> 0, releases |-> 0,
     conn |-> "none", txn |-> "none",
     status |-> 0, rows |-> {}, list |-> <<>>, err |-> NULL]

\* the lowest free slot: a request takes the first one
FreeSlot(s) ==
    /\ req[s].pc = "idle"
    /\ \A o \in Slots : o < s => req[o].pc # "idle"

\* the other transactions still in progress
OthersOpen(s) == { o \in Slots \ {s} : req[o].txn = "open" }

Init ==
    /\ patients = SeedPatients
    /\ admissions = SeedAdmissions
    /\ patSeq = 3
    /\ admSeq = 2
    /\ clockYear = SeedYear
    /\ now = 1
    /\ started = 0
    /\ req = [s \in Slots |-> Blank]
    /\ sent = Blank
    /\ alloc = [pc |-> "off", count |-> 0, year |-> 0, braccialetto |-> <<>>]

\* the wall clock passes midnight of 31 December
NewYear ==
    /\ clockYear < SeedYear + MaxNewYear
    /\ clockYear' = clockYear + 1
    /\ UNCHANGED <<patients, admissions, patSeq, admSeq, now, started, req, sent, alloc>>

(* --------------------------- POST /admissions -------------------------- *)

\* the role check compares with a label user_role does not have
ForbiddenWrongLabel(role) == role = "ADM"

\* the role check letting only doctors through
ForbiddenAllButDoc(role) == role # "DOC"

\* if (req.user.role === 'AMM')
Forbidden(role) == role = "AMM"

\* role check, pool.connect(), BEGIN
PostArrive(s, role, body) ==
    /\ FreeSlot(s)
    /\ started < MaxReq
    /\ started' = started + 1
    /\ IF Forbidden(role)
       THEN /\ sent' = [Blank EXCEPT
                         !.pc = "done", !.kind = "post", !.role = role,
                         !.body = body, !.status = 403]
            /\ UNCHANGED <<req, now>>
       ELSE /\ req' = [req EXCEPT ![s] = [Blank EXCEPT
                         !.pc = "select_patient", !.kind = "post", !.role = role,
                         !.body = body, !.conn = "held", !.txn = "open",
                         !.begins = 1,
                         !.ts = now]]
            /\ now' = now + 1
            /\ UNCHANGED sent
    /\ UNCHANGED <<patients, admissions, patSeq, admSeq, clockYear, alloc>>

\* the lookup reading the rows other transactions have not committed yet
PatientCheckDirtyRead(s) ==
    { p \in patients \cup UNION { req[o].pendP : o \in Slots } :
        p.codice_fiscale = req[s].body.codiceFiscale }

\* SELECT id FROM patients WHERE codice_fiscale = $1
PatientCheck(s) ==
    { p \in patients \cup req[s].pendP : p.codice_fiscale = req[s].body.codiceFiscale }

\* the identifier taken from the sequence instead of the row found
PatientIdFromSequence(found) == patSeq

\* patientId = patientCheck.rows[0].id
PatientIdOf(found) == (CHOOSE p \in found : TRUE).id

\* the branch overwriting the demographics of the patient found
WrittenOnFoundUpsert(s, found) ==
    { PatientRow(p.id, p.codice_fiscale, req[s].body.anagrafica) : p \in found }

\* the rows the branch for a patient found writes: none
WrittenOnFound(s, found) == {}

\* A. Gestione Paziente: the lookup and the branch on its result
SelectPatient(s) ==
    /\ req[s].pc = "select_patient"
    /\ LET found == PatientCheck(s)
       IN  IF found # {}
           THEN req' = [req EXCEPT ![s].patientId = PatientIdOf(found),
                                   ![s].pendP = WrittenOnFound(s, found),
                                   ![s].pc = "year"]
           ELSE req' = [req EXCEPT ![s].pc = "insert_patient"]
    /\ UNCHANGED <<patients, admissions, patSeq, admSeq, clockYear, now, started, sent, alloc>>

\* the column without its UNIQUE constraint
PatientNotUnique(cf) == FALSE

\* codice_fiscale VARCHAR(16) UNIQUE: a committed row already has the key
PatientUniqueViolation(cf) == \E p \in patients : p.codice_fiscale = cf

\* the key is held by a row of a transaction still in progress
PatientKeyInProgress(s, cf) ==
    \E o \in OthersOpen(s) : \E p \in req[o].pendP : p.codice_fiscale = cf

\* INSERT INTO patients ... RETURNING id
InsertPatient(s) ==
    /\ req[s].pc = "insert_patient"
    /\ LET cf == req[s].body.codiceFiscale
           newId == patSeq + 1
       IN  /\ ~PatientKeyInProgress(s, cf)
           /\ patSeq' = newId
           /\ IF PatientUniqueViolation(cf)
              THEN req' = [req EXCEPT ![s].err = "patients_codice_fiscale_key",
                                      ![s].pc = "rollback"]
              ELSE req' = [req EXCEPT
                             ![s].pendP = {PatientRow(newId, cf, req[s].body.anagrafica)},
                             ![s].patientId = newId,
                             ![s].pc = "year"]
    /\ UNCHANGED <<patients, admissions, admSeq, clockYear, now, started, sent, alloc>>

\* const year = new Date().getFullYear()
ReadYear(s) ==
    /\ req[s].pc = "year"
    /\ req' = [req EXCEPT ![s].year = clockYear, ![s].pc = "count"]
    /\ UNCHANGED <<patients, admissions, patSeq, admSeq, clockYear, now, started, sent, alloc>>

\* the number taken from the sequence of admissions.id, which a rejected
\* INSERT consumes
CountResFromSequence(s, year) == ToDigits(admSeq)

\* SELECT count(*) FROM admissions WHERE braccialetto LIKE $1: the count
\* comes back as text
CountRes(s, year) ==
    ToDigits(Cardinality({ a \in admissions \cup req[s].pendA : Like(a.braccialetto, year) }))

\* B. Generazione Braccialetto
CountBracelets(s) ==
    /\ req[s].pc = "count"
    /\ req' = [req EXCEPT
                 ![s].braccialetto =
                     Braccialetto(req[s].year, NextNum(CountRes(s, req[s].year))),
                 ![s].pc = "insert_admission"]
    /\ UNCHANGED <<patients, admissions, patSeq, admSeq, clockYear, now, started, sent, alloc>>

\* the column without its UNIQUE constraint
BraccialettoNotUnique(b) == FALSE

\* braccialetto VARCHAR(20) UNIQUE: a committed row already has the value
BraccialettoUniqueViolation(b) == \E a \in admissions : a.braccialetto = b

\* the value is held by a row of a transaction still in progress
BraccialettoInProgress(s, b) ==
    \E o \in OthersOpen(s) : \E a \in req[o].pendA : a.braccialetto = b

\* the column declared VARCHAR(20): any text is stored
ColoreAcceptedVarchar(c) == TRUE

\* codice_colore triage_color: NULL or a label of the enumeration
ColoreAccepted(c) == c = NULL \/ c \in triage_color

\* the INSERT taking stato from the body when the body has one
InsertedStatoFromBody(body) == IF body.stato # NULL THEN body.stato ELSE "ATT"

\* the stato the INSERT writes: the literal 'ATT'
InsertedStato(body) == "ATT"

\* the INSERT tried again, with the same bracelet, when it was rejected
AfterRejectedInsertRetry == "insert_admission"

\* where a rejected INSERT leaves the handler: in its catch block
AfterRejectedInsert == "rollback"

\* C. Creazione Accesso: INSERT INTO admissions ... RETURNING *
InsertAdmission(s) ==
    /\ req[s].pc = "insert_admission"
    /\ LET b == req[s].braccialetto
           newId == admSeq + 1
           row == AdmissionRow(newId, req[s].patientId, b, req[s].ts,
                               InsertedStato(req[s].body), req[s].body.codiceColore)
       IN  IF ~ColoreAccepted(req[s].body.codiceColore)
           THEN /\ req' = [req EXCEPT ![s].err = "invalid_enum_triage_color",
                                      ![s].pc = "rollback"]
                /\ admSeq' = admSeq
           ELSE /\ ~BraccialettoInProgress(s, b)
                /\ admSeq' = newId
                /\ IF BraccialettoUniqueViolation(b)
                   THEN req' = [req EXCEPT ![s].err = "admissions_braccialetto_key",
                                           ![s].attempts = @ + 1,
                                           ![s].pc = AfterRejectedInsert]
                   ELSE req' = [req EXCEPT ![s].pendA = {row}, ![s].rows = {row},
                                           ![s].attempts = @ + 1,
                                           ![s].pc = "commit"]
    /\ UNCHANGED <<patients, admissions, patSeq, clockYear, now, started, sent, alloc>>

\* COMMIT, res.status(201).json(insertAdm.rows[0]), client.release()
Commit(s) ==
    /\ req[s].pc = "commit"
    /\ patients' = patients \cup req[s].pendP
    /\ admissions' = admissions \cup req[s].pendA
    /\ sent' = [req[s] EXCEPT !.txn = "committed", !.conn = "released",
                              !.ends = @ + 1, !.releases = @ + 1,
                              !.status = 201, !.pc = "done"]
    /\ req' = [req EXCEPT ![s] = Blank]
    /\ UNCHANGED <<patSeq, admSeq, clockYear, now, started, alloc>>

\* the statements run outside a transaction: the patient row stays
PatientsWithoutRollback(s) == patients \cup req[s].pendP

\* the patients table after ROLLBACK
PatientsAfterRollback(s) == patients

\* the admissions table after ROLLBACK
AdmissionsAfterRollback(s) == admissions

\* catch: ROLLBACK, res.status(500), and client.release() in finally
Rollback(s) ==
    /\ req[s].pc = "rollback"
    /\ patients' = PatientsAfterRollback(s)
    /\ admissions' = AdmissionsAfterRollback(s)
    /\ sent' = [req[s] EXCEPT !.txn = "rolledback", !.conn = "released",
                              !.ends = @ + 1, !.releases = @ + 1,
                              !.status = 500, !.pc = "done"]
    /\ req' = [req EXCEPT ![s] = Blank]
    /\ UNCHANGED <<patSeq, admSeq, clockYear, now, started, alloc>>

(* -------------------- PATCH /admissions/:id/status --------------------- *)

\* the list with one state of the enumeration left out
allowedWithoutRic == {"ATT", "VIS", "OBI", "DIM"}

\* no validation: every text the body can carry passes
allowedEveryText == NuoviStati

\* the list with a value the enumeration does not have
allowedWithUnknown == {"ATT", "VIS", "OBI", "RIC", "DIM", "XXX"}

\* const allowed = ['ATT', 'VIS', 'OBI', 'RIC', 'DIM']
allowed == {"ATT", "VIS", "OBI", "RIC", "DIM"}

\* the UPDATE without its WHERE clause
UpdateStatoEveryRow(rows, id, stato) ==
    { [a EXCEPT !.stato = stato] : a \in rows }

\* the progress of a state along the pathway
StatoRank(stato) ==
    CASE stato = "ATT" -> 1 [] stato = "VIS" -> 2 [] stato = "OBI" -> 3
      [] stato = "RIC" -> 4 [] OTHER -> 5

\* the UPDATE that only moves an admission forward along the pathway
UpdateStatoForwardOnly(rows, id, stato) ==
    { IF a.id = id /\ StatoRank(stato) > StatoRank(a.stato)
      THEN [a EXCEPT !.stato = stato] ELSE a : a \in rows }

\* discharge as removal: the row is deleted when the target is DIM
UpdateStatoDeleteOnDim(rows, id, stato) ==
    { IF a.id = id THEN [a EXCEPT !.stato = stato] ELSE a
      : a \in { r \in rows : ~(r.id = id /\ stato = "DIM") } }

\* UPDATE admissions SET stato = $1 WHERE id = $2: the table afterwards
UpdateStato(rows, id, stato) ==
    { IF a.id = id THEN [a EXCEPT !.stato = stato] ELSE a : a \in rows }

\* RETURNING *: the rows the UPDATE changed
Returning(rows, id, stato) ==
    { [a EXCEPT !.stato = stato] : a \in { r \in rows : r.id = id } }

\* the status of the answer to a query that did not throw: res.json(...)
\* leaves it at 200, also when result.rows[0] is undefined
UpdateAnswer(rows) == 200

\* the handler: the validation of nuovoStato, then one UPDATE run by
\* pool.query on its own (autocommit), then the answer.  The statement is the
\* only step that touches the tables, so the handler is one step
Patch(id, nuovoStato) ==
    /\ started < MaxReq
    /\ started' = started + 1
    /\ LET r == [Blank EXCEPT !.pc = "done", !.kind = "patch", !.id = id,
                              !.nuovoStato = nuovoStato]
       IN  IF nuovoStato \notin allowed
           THEN /\ sent' = [r EXCEPT !.status = 400]
                /\ admissions' = admissions
           ELSE IF id = BadId
           THEN /\ sent' = [r EXCEPT !.err = "invalid_input_syntax_integer",
                                     !.status = 500]
                /\ admissions' = admissions
           ELSE LET result == Returning(admissions, id, nuovoStato)
                IN  /\ admissions' = UpdateStato(admissions, id, nuovoStato)
                    /\ sent' = [r EXCEPT !.rows = result,
                                         !.status = UpdateAnswer(result)]
    /\ UNCHANGED <<patients, patSeq, admSeq, clockYear, now, req, alloc>>

(* ---------------------------- GET /admissions -------------------------- *)

\* the rows of triage_colors: code and priority, 1 the most urgent
TriageColors ==
    { [code |-> "ROSSO", priority |-> 1],
      [code |-> "ARANCIONE", priority |-> 2],
      [code |-> "AZZURRO", priority |-> 3],
      [code |-> "VERDE", priority |-> 4],
      [code |-> "BIANCO", priority |-> 5] }

\* the filter reads as the comment above the handler does: Stato != DIM
ActiveOnlyNotDim(a) == a.stato # "DIM"

\* WHERE a.stato NOT IN ('DIM', 'RIC')
Active(a) == a.stato \notin {"DIM", "RIC"}

\* FROM admissions a JOIN patients p ON a.patient_id = p.id
\* LEFT JOIN triage_colors tc ON a.codice_colore = tc.code WHERE ...:
\* one row for each pair of a patient and a color entry that match, and one
\* row with no color entry when none matches
JoinedRows ==
    UNION { LET ps == { p \in patients : p.id = a.patient_id }
                tcs == { c \in TriageColors : c.code = a.codice_colore }
            IN  IF tcs = {}
                THEN { [adm |-> a, patient |-> p, tc |-> {}] : p \in ps }
                ELSE { [adm |-> a, patient |-> p, tc |-> {c}] : p \in ps, c \in tcs }
          : a \in { x \in admissions : Active(x) } }

\* the sort with the older admission first
SortsBeforeOldestFirst(x, y) ==
    \/ x.tc # {} /\ y.tc = {}
    \/ \E cx \in x.tc, cy \in y.tc : cx.priority < cy.priority
    \/ /\ { c.priority : c \in x.tc } = { c.priority : c \in y.tc }
       /\ x.adm.data_ora_ingresso < y.adm.data_ora_ingresso

\* ORDER BY tc.priority, a.data_ora_ingresso DESC: x has to come before y
\* (a row without priority sorts after every row that has one)
SortsBefore(x, y) ==
    \/ x.tc # {} /\ y.tc = {}
    \/ \E cx \in x.tc, cy \in y.tc : cx.priority < cy.priority
    \/ /\ { c.priority : c \in x.tc } = { c.priority : c \in y.tc }
       /\ x.adm.data_ora_ingresso > y.adm.data_ora_ingresso

\* the orders the query can return the rows in: at each position one of the
\* rows left that no other row left has to come before; rows the sort keys
\* do not tell apart come in any order
RECURSIVE Orderings(_)
Orderings(rows) ==
    IF rows = {} THEN { <<>> }
    ELSE UNION { { <<x>> \o t : t \in Orderings(rows \ {x}) }
                 : x \in { r \in rows : \A o \in rows : ~SortsBefore(o, r) } }

\* result.rows.map(...): the color columns folded into codice_colore, null
\* when the admission has no color
MappedRow(x) ==
    [id |-> x.adm.id, braccialetto |-> x.adm.braccialetto,
     data_ora_ingresso |-> x.adm.data_ora_ingresso, stato |-> x.adm.stato,
     codice_fiscale |-> x.patient.codice_fiscale,
     codice_colore |-> IF x.adm.codice_colore = NULL THEN {}
                       ELSE { [code |-> x.adm.codice_colore,
                               priority |-> { c.priority : c \in x.tc }] }]

\* the handler: one SELECT run by pool.query, then res.json(mappedRows)
ListActive ==
    /\ \E l \in Orderings(JoinedRows) :
          sent' = [Blank EXCEPT !.pc = "done", !.kind = "get", !.status = 200,
                                !.list = [i \in DOMAIN l |-> MappedRow(l[i])]]
    /\ UNCHANGED <<patients, admissions, patSeq, admSeq, clockYear, now, started, req, alloc>>

(* --------------------------- the specification ------------------------- *)

\* path segments tried as :id: the seeded admissions, the identifier the
\* first INSERT of a run draws from the sequence, and one that is not a number
PatchIds == {1, 2, 3, BadId}

Next ==
    \/ NewYear
    \/ \E s \in Slots, r \in PostRequests : PostArrive(s, r.role, r.body)
    \/ \E s \in Slots : SelectPatient(s)
    \/ \E s \in Slots : InsertPatient(s)
    \/ \E s \in Slots : ReadYear(s)
    \/ \E s \in Slots : CountBracelets(s)
    \/ \E s \in Slots : InsertAdmission(s)
    \/ \E s \in Slots : Commit(s)
    \/ \E s \in Slots : Rollback(s)
    \/ \E id \in PatchIds, nuovoStato \in NuoviStati : Patch(id, nuovoStato)
    \/ ListActive

Spec == Init /\ [][Next]_vars

\* the statement a POST handler is awaiting, whichever it is
PostStep(s) ==
    \/ SelectPatient(s)
    \/ InsertPatient(s)
    \/ ReadYear(s)
    \/ CountBracelets(s)
    \/ InsertAdmission(s)
    \/ Commit(s)
    \/ Rollback(s)

\* the database answers every statement it can run and the event loop resumes
\* the handler awaiting it: no handler that can take its next step waits
\* for ever
FairSpec == Spec /\ \A s \in Slots : WF_vars(PostStep(s))

(* ------------- the connection of a POST, statement by statement -------- *)

\* client.release() at the end of the try block: reached after COMMIT only
ReleasedOnSuccessOnly(status) == status = 201

\* finally { client.release() }: reached on every path
ReleasedOn(status) == TRUE

\* await client.query('COMMIT'): the database makes the rows of the
\* transaction visible; the handler has not resumed yet
CommitTxn(s) ==
    /\ req[s].pc = "commit"
    /\ patients' = patients \cup req[s].pendP
    /\ admissions' = admissions \cup req[s].pendA
    /\ req' = [req EXCEPT ![s].txn = "committed", ![s].ends = @ + 1,
                          ![s].status = 201, ![s].pc = "release"]
    /\ UNCHANGED <<patSeq, admSeq, clockYear, now, started, sent, alloc>>

\* catch: await client.query('ROLLBACK')
RollbackTxn(s) ==
    /\ req[s].pc = "rollback"
    /\ patients' = PatientsAfterRollback(s)
    /\ admissions' = AdmissionsAfterRollback(s)
    /\ req' = [req EXCEPT ![s].txn = "rolledback", ![s].ends = @ + 1,
                          ![s].status = 500, ![s].pc = "release"]
    /\ UNCHANGED <<patSeq, admSeq, clockYear, now, started, sent, alloc>>

\* the handler resumes: res.status(...).json(...), then the finally block
Release(s) ==
    /\ req[s].pc = "release"
    /\ sent' = IF ReleasedOn(req[s].status)
               THEN [req[s] EXCEPT !.conn = "released", !.releases = @ + 1,
                                   !.pc = "done"]
               ELSE [req[s] EXCEPT !.pc = "done"]
    /\ req' = [req EXCEPT ![s] = Blank]
    /\ UNCHANGED <<patients, admissions, patSeq, admSeq, clockYear, now, started, alloc>>

NextConn ==
    \/ NewYear
    \/ \E s \in Slots, r \in PostRequests : PostArrive(s, r.role, r.body)
    \/ \E s \in Slots : SelectPatient(s)
    \/ \E s \in Slots : InsertPatient(s)
    \/ \E s \in Slots : ReadYear(s)
    \/ \E s \in Slots : CountBracelets(s)
    \/ \E s \in Slots : InsertAdmission(s)
    \/ \E s \in Slots : CommitTxn(s)
    \/ \E s \in Slots : RollbackTxn(s)
    \/ \E s \in Slots : Release(s)

SpecConn == Init /\ [][NextConn]_vars

(* ------------------- the bracelet formatter on its own ----------------- *)

\* row counts of one year around each power of ten up to 10^4
RECURSIVE Pow10(_)
Pow10(k) == IF k = 0 THEN 1 ELSE 10 * Pow10(k - 1)

AllocCounts ==
    { c \in 0..(Pow10(PadWidth) + AllocSpan) :
        \E k \in 0..PadWidth : c >= Pow10(k) - AllocSpan /\ c <= Pow10(k) + AllocSpan }

AllocYears == SeedYear..(SeedYear + MaxNewYear)

InitAlloc ==
    /\ patients = SeedPatients
    /\ admissions = SeedAdmissions
    /\ patSeq = 3
    /\ admSeq = 2
    /\ clockYear = SeedYear
    /\ now = 1
    /\ started = 0
    /\ req = [s \in Slots |-> Blank]
    /\ sent = Blank
    /\ alloc \in [pc : {"count"}, count : AllocCounts, year : AllocYears,
                  braccialetto : {<<>>}]

\* lines B of the handler applied to a year that has alloc.count bracelets:
\* count(*) comes back as text, nextNum and braccialetto are computed from it
AllocStep ==
    /\ alloc.pc = "count"
    /\ alloc' = [alloc EXCEPT
                   !.braccialetto = Braccialetto(alloc.year, NextNum(ToDigits(alloc.count))),
                   !.pc = "done"]
    /\ UNCHANGED <<patients, admissions, patSeq, admSeq, clockYear, now, started, req, sent>>

NextAlloc == AllocStep

SpecAlloc == InitAlloc /\ [][NextAlloc]_vars

(* --------------- PATCH requests running at the same time --------------- *)

\* lines 314-319 of the handler: the parameters are read and nuovoStato is
\* validated; a request that passes waits for pool.query to run its UPDATE
PatchArrive(s, id, nuovoStato) ==
    /\ FreeSlot(s)
    /\ started < MaxReq
    /\ started' = started + 1
    /\ LET r == [Blank EXCEPT !.kind = "patch", !.id = id,
                              !.nuovoStato = nuovoStato, !.ts = now]
       IN  IF nuovoStato \notin allowed
           THEN req' = [req EXCEPT ![s] = [r EXCEPT !.pc = "done", !.status = 400]]
           ELSE req' = [req EXCEPT ![s] = [r EXCEPT !.pc = "update"]]
    /\ now' = now + 1
    /\ UNCHANGED <<patients, admissions, patSeq, admSeq, clockYear, sent, alloc>>

\* lines 321-328: the UPDATE, one statement the database runs on its own, and
\* the answer; applied records the order the statements took effect in
PatchUpdate(s) ==
    /\ req[s].pc = "update"
    /\ IF req[s].id = BadId
       THEN /\ req' = [req EXCEPT ![s].err = "invalid_input_syntax_integer",
                                  ![s].status = 500, ![s].pc = "done"]
            /\ admissions' = admissions
       ELSE LET result == Returning(admissions, req[s].id, req[s].nuovoStato)
            IN  /\ admissions' = UpdateStato(admissions, req[s].id, req[s].nuovoStato)
                /\ req' = [req EXCEPT ![s].rows = result,
                                      ![s].status = UpdateAnswer(result),
                                      ![s].applied = now, ![s].pc = "done"]
    /\ now' = now + 1
    /\ UNCHANGED <<patients, patSeq, admSeq, clockYear, started, sent, alloc>>

NextPatch ==
    \/ \E s \in Slots, id \in PatchIds, nuovoStato \in NuoviStati :
          PatchArrive(s, id, nuovoStato)
    \/ \E s \in Slots : PatchUpdate(s)

SpecPatch == Init /\ [][NextPatch]_vars

(* ------------------------------- claims -------------------------------- *)

\* C1: the committed admissions never contain two rows with the same
\* bracelet identifier, whatever the interleaving of the POST requests
C1_BraceletsUnique ==
    \A a, b \in admissions : a.braccialetto = b.braccialetto => a = b

\* two requests computed the same bracelet: one committed it, the other was
\* rejected by the unique index
C1_Witness ==
    /\ sent.kind = "post"
    /\ sent.err = "admissions_braccialetto_key"
    /\ \E a \in admissions : a.braccialetto = sent.braccialetto /\ a \notin SeedAdmissions

\* C2: the bracelet of an admission created in year Y is Y, a dash and a
\* sequence number of exactly four digits, the number being count + 1
C2_FourDigitFormat ==
    alloc.pc = "done" =>
        LET b == alloc.braccialetto
            y == YearPattern(alloc.year)
        IN  /\ Len(b) = Len(y) + PadWidth
            /\ SubSeq(b, 1, Len(y)) = y
            /\ ParseInt(SubSeq(b, Len(y) + 1, Len(b))) = alloc.count + 1

\* C3: a request whose INSERT was rejected as a duplicate bracelet retries
\* and ends with 201 and another bracelet; the collision is never answered
\* as a failure
C3_CollisionRetried ==
    (sent.kind = "post" /\ sent.err = "admissions_braccialetto_key") =>
        /\ sent.status = 201
        /\ \E a \in admissions : a \in sent.rows /\ a.braccialetto # sent.braccialetto

\* C4: the committed patients never contain two rows with the same codice
\* fiscale, whatever the interleaving of lookup and insert
C4_OnePatientPerKey ==
    \A p, q \in patients : p.codice_fiscale = q.codice_fiscale => p = q

\* two requests with the same new key both found no patient; one committed
\* its row, the other was rejected by the unique index
C4_Witness ==
    /\ sent.kind = "post"
    /\ sent.err = "patients_codice_fiscale_key"
    /\ \E p \in patients : p.codice_fiscale = sent.body.codiceFiscale
                             /\ p \notin SeedPatients

\* C5: a POST that fails after BEGIN leaves none of its writes in the
\* committed tables, and no patient row written by a request is committed
\* without the admission row of that request
C5_AllOrNothing ==
    /\ (sent.kind = "post" /\ sent.status = 500) =>
          /\ sent.pendP \cap patients = {}
          /\ sent.pendA \cap admissions = {}
          /\ \A p \in patients : \A w \in sent.pendP : p.id # w.id
          /\ \A a \in admissions : \A w \in sent.pendA : a.id # w.id
    /\ \A p \in patients \ SeedPatients : \E a \in admissions : a.patient_id = p.id

\* a request inserted a patient row, failed afterwards and was rolled back
C5_Witness ==
    /\ sent.kind = "post"
    /\ sent.status = 500
    /\ sent.txn = "rolledback"
    /\ sent.pendP # {}

\* C6: a POST by the AMM role is answered 403 in the step that receives it,
\* with no connection taken and no transaction begun, and that step leaves
\* the tables and their sequences as they were
C6_AdminForbidden ==
    [][ /\ \A s \in Slots : req'[s].role # "AMM"
        /\ (sent'.kind = "post" /\ sent'.role = "AMM") =>
              /\ sent'.status = 403
              /\ sent'.conn = "none"
              /\ sent'.txn = "none"
              /\ sent'.pendP = {} /\ sent'.pendA = {}
        /\ (started' # started /\ req' = req /\ sent'.kind = "post"
              /\ sent'.role = "AMM") =>
              /\ patients' = patients
              /\ admissions' = admissions
              /\ patSeq' = patSeq
              /\ admSeq' = admSeq
              /\ now' = now ]_vars

\* an AMM request was answered 403
C6_Witness ==
    /\ sent.kind = "post"
    /\ sent.role = "AMM"
    /\ sent.status = 403
    /\ started > 0

\* C7: a PATCH whose target is one of the five states and whose admission
\* exists is answered 200 and leaves the admission in the target state,
\* whatever its state was; a target outside the five is answered 400
C7_TransitionPermissive ==
    [][ (started' # started /\ sent'.kind = "patch") =>
          LET t == sent'.nuovoStato
              hit == { a \in admissions : a.id = sent'.id }
          IN  /\ t \notin admission_status => sent'.status = 400
              /\ (t \in admission_status /\ hit # {}) =>
                    /\ sent'.status = 200
                    /\ \A a \in hit :
                          /\ a.stato \in admission_status
                          /\ [a EXCEPT !.stato = t] \in admissions'
                          /\ sent'.rows = {[a EXCEPT !.stato = t]} ]_vars

\* the seeded admission 2 (VIS) was moved back to ATT
C7_Witness ==
    /\ sent.kind = "patch"
    /\ sent.status = 200
    /\ sent.id = 2
    /\ sent.nuovoStato = "ATT"
    /\ \E a \in admissions : a.id = 2 /\ a.stato = "ATT"

\* C8: a PATCH with a valid target whose identifier matches no admission
\* is answered NotFound (404)
C8_NotFound ==
    (sent.kind = "patch" /\ sent.nuovoStato \in allowed /\ sent.id # BadId
       /\ sent.rows = {}) => sent.status = 404

\* C9: a PATCH answered 200 changes the stato of the admission it names and
\* nothing else: the other columns of that row, the other rows of
\* admissions and the patients are as they were
C9_TransitionFrame ==
    [][ (started' # started /\ sent'.kind = "patch" /\ sent'.status = 200) =>
          /\ patients' = patients
          /\ Cardinality(admissions') = Cardinality(admissions)
          /\ \A a \in admissions :
                IF a.id = sent'.id
                THEN \E c \in admissions' :
                        /\ c.id = a.id
                        /\ c.braccialetto = a.braccialetto
                        /\ c.data_ora_ingresso = a.data_ora_ingresso
                        /\ c.patient_id = a.patient_id
                        /\ c.codice_colore = a.codice_colore
                ELSE a \in admissions' ]_vars

\* a PATCH changed one admission while another one, in another state, exists
C9_Witness ==
    /\ sent.kind = "patch"
    /\ sent.status = 200
    /\ \E r \in sent.rows : \E a \in admissions : a.id # r.id /\ a.stato # r.stato

\* C10: every row a POST adds to admissions has stato ATT when it is
\* committed, and so has the row returned with 201, whatever the body holds
C10_InitialStateATT ==
    [][ /\ \A a \in admissions' :
              (\A b \in admissions : b.id # a.id) => a.stato = "ATT"
        /\ (sent'.kind = "post" /\ sent'.status = 201) =>
              /\ sent'.rows # {}
              /\ \A r \in sent'.rows : r.stato = "ATT" ]_vars

\* a request whose body carries stato DIM was answered 201 with stato ATT
C10_Witness ==
    /\ sent.kind = "post"
    /\ sent.status = 201
    /\ sent.body.stato = "DIM"
    /\ \E r \in sent.rows : r.stato = "ATT" /\ r.id \in { a.id : a \in admissions }

\* the identifiers of the rows of a listing
Listed(l) == { l[i].id : i \in DOMAIN l }

PriorityOf(r) == UNION { c.priority : c \in r.codice_colore }

\* C12: in a listing, a row whose color priority is lower than another's
\* comes before it, and of two rows of equal priority the one with the later
\* data_ora_ingresso comes first
C12_ListingOrder ==
    sent.kind = "get" =>
        \A i, j \in DOMAIN sent.list :
            LET a == sent.list[i]
                b == sent.list[j]
            IN  /\ (\E pa \in PriorityOf(a), pb \in PriorityOf(b) : pa < pb) => i < j
                /\ (PriorityOf(a) # {} /\ PriorityOf(a) = PriorityOf(b)
                      /\ a.data_ora_ingresso > b.data_ora_ingresso) => i < j

\* a listing with two rows of different priority and two rows of the same
\* priority entered at different times
C12_Witness ==
    /\ sent.kind = "get"
    /\ \E i, j \in DOMAIN sent.list :
          \E pa \in PriorityOf(sent.list[i]), pb \in PriorityOf(sent.list[j]) : pa < pb
    /\ \E i, j \in DOMAIN sent.list :
          /\ i # j
          /\ PriorityOf(sent.list[i]) # {}
          /\ PriorityOf(sent.list[i]) = PriorityOf(sent.list[j])
          /\ sent.list[i].data_ora_ingresso > sent.list[j].data_ora_ingresso

\* the requests of SpecPatch that ran their UPDATE on admission id
AppliedOn(id) ==
    { s \in Slots : req[s].kind = "patch" /\ req[s].pc = "done"
                    /\ req[s].applied > 0 /\ req[s].id = id }

\* two requests were both between validation and answer at some moment
Overlap(s1, s2) ==
    /\ s1 # s2
    /\ req[s1].ts < req[s2].applied
    /\ req[s2].ts < req[s1].applied

\* C13: two transition requests with valid targets that ran at the same time
\* against the same existing admission are both answered 200, and once both
\* have completed the admission is in the target of whichever UPDATE was
\* applied last
C13_LastWriterWins ==
    \A a \in admissions : \A s1, s2 \in AppliedOn(a.id) :
        Overlap(s1, s2) =>
            /\ req[s1].status = 200 /\ req[s2].status = 200
            /\ req[s1].rows # {} /\ req[s2].rows # {}
            /\ \A last \in AppliedOn(a.id) :
                  (\A o \in AppliedOn(a.id) : req[o].applied <= req[last].applied)
                      => a.stato = req[last].nuovoStato

\* two overlapping requests with different targets, the later one putting the
\* admission back into the state it had before both
C13_Witness ==
    \E a \in admissions : \E s1, s2 \in AppliedOn(a.id) :
        /\ Overlap(s1, s2)
        /\ req[s1].applied < req[s2].applied
        /\ req[s1].nuovoStato = "DIM"
        /\ req[s2].nuovoStato = "ATT"
        /\ a.stato = "ATT"

UnknownColor(c) == c # NULL /\ \A t \in TriageColors : t.code # c

\* the last answer went to a POST of a permitted role carrying such a code,
\* and no unique index stood in its way
UnknownColorAnswered ==
    /\ sent.kind = "post"
    /\ ~Forbidden(sent.role)
    /\ UnknownColor(sent.body.codiceColore)
    /\ sent.err \notin {"patients_codice_fiscale_key", "admissions_braccialetto_key"}

\* C15 as stated: a POST by a permitted role with a color code the registry
\* does not know still proceeds, the admission being created and committed
\* with that code
C15_UnknownColorProceeds ==
    UnknownColorAnswered =>
        /\ sent.status = 201
        /\ \E a \in admissions :
              a \in sent.rows /\ a.codice_colore = sent.body.codiceColore

\* C15 amended: a POST by a permitted role with a color code the registry
\* does not know fails: the INSERT is rejected, the transaction is rolled
\* back, the answer is 500, and no admission ever carries such a code
C15_UnknownColorRejected ==
    /\ \A a \in admissions : ~UnknownColor(a.codice_colore)
    /\ UnknownColorAnswered =>
          /\ sent.status = 500
          /\ sent.err = "invalid_enum_triage_color"
          /\ sent.txn = "rolledback"
          /\ sent.rows = {}
          /\ sent.pendP \cap patients = {}

\* such a request, after inserting a new patient, was answered 500
C15_Witness ==
    /\ UnknownColorAnswered
    /\ sent.status = 500
    /\ sent.pendP # {}

\* C16: a POST that succeeds adds exactly one admission row; it adds one
\* patient row when no patient had the codice fiscale and none when one had,
\* and then the new admission references the patient that already existed
C16_RowsPerSuccess ==
    [][\A s \in Slots : (req[s].pc = "commit" /\ req'[s].pc = "idle") =>
          LET cf == req[s].body.codiceFiscale
              had == { p \in patients : p.codice_fiscale = cf }
              newA == admissions' \ admissions
              newP == patients' \ patients
          IN  /\ sent'.status = 201
              /\ admissions \subseteq admissions'
              /\ patients \subseteq patients'
              /\ Cardinality(newA) = 1
              /\ IF had # {}
                 THEN /\ newP = {}
                      /\ \A a \in newA : \E p \in had : a.patient_id = p.id
                 ELSE /\ Cardinality(newP) = 1
                      /\ \A a \in newA, p \in newP :
                            p.codice_fiscale = cf /\ a.patient_id = p.id]_vars

\* a POST for the codice fiscale of a seeded patient succeeded: a third
\* admission, referencing that patient, and no fourth patient
C16_Witness ==
    /\ sent.kind = "post"
    /\ sent.status = 201
    /\ patients = SeedPatients
    /\ Cardinality(admissions) = Cardinality(SeedAdmissions) + 1
    /\ \E a \in admissions \ SeedAdmissions : \E p \in SeedPatients :
          /\ a \in sent.rows
          /\ a.patient_id = p.id
          /\ p.codice_fiscale = sent.body.codiceFiscale

\* C17: no step changes the stored record of a patient: a POST for a codice
\* fiscale that already has a patient leaves that row as it was, and the
\* anagrafica of the request is stored nowhere
C17_DemographicsKept ==
    [][/\ patients \subseteq patients'
       /\ \A q \in patients' :
             (\E p \in patients : p.codice_fiscale = q.codice_fiscale \/ p.id = q.id)
                 => q \in patients
       /\ \A s \in Slots : (req[s].pc = "commit" /\ req'[s].pc = "idle"
                               /\ \E p \in patients :
                                     p.codice_fiscale = req[s].body.codiceFiscale)
             => patients' = patients]_vars

\* a POST for the codice fiscale of a seeded patient, with another
\* anagrafica, succeeded and the patients are the seeded ones
C17_Witness ==
    /\ sent.kind = "post"
    /\ sent.status = 201
    /\ \E p \in SeedPatients :
          /\ p.codice_fiscale = sent.body.codiceFiscale
          /\ p.anagrafica # sent.body.anagrafica
          /\ p \in patients
    /\ \A q \in patients : q.anagrafica # sent.body.anagrafica

\* C18: a committed admission is in every later state, with the identifier,
\* the patient and the bracelet it was committed with, and its bracelet is on
\* no other admission
C18_AdmissionsKept ==
    [][\A a \in admissions :
          /\ \E b \in admissions' :
                /\ b.id = a.id
                /\ b.braccialetto = a.braccialetto
                /\ b.patient_id = a.patient_id
          /\ \A b \in admissions' : b.braccialetto = a.braccialetto => b.id = a.id]_vars

\* a seeded admission was discharged and a POST succeeded afterwards: the
\* discharged row is there with its bracelet, the new row has another one
C18_Witness ==
    /\ sent.kind = "post"
    /\ sent.status = 201
    /\ \E a \in admissions : \E o \in SeedAdmissions :
          /\ a.id = o.id
          /\ a.stato = "DIM"
          /\ o.stato # "DIM"
          /\ a.braccialetto = o.braccialetto
          /\ \A n \in sent.rows : n \in admissions /\ n.braccialetto # a.braccialetto

\* C19: a POST is answered 403 only when the role is AMM; a POST of role DOC
\* or INF is never answered 403: it gets a connection and a transaction, and
\* its answer comes from the COMMIT or the ROLLBACK of that transaction
C19_OnlyAdminForbidden ==
    /\ (sent.kind = "post" /\ sent.status = 403) => sent.role = "AMM"
    /\ (sent.kind = "post" /\ sent.role \in user_role \ {"AMM"}) =>
          /\ sent.status \in {201, 500}
          /\ sent.txn \in {"committed", "rolledback"}
          /\ sent.conn = "released"
    /\ \A s \in Slots : req[s].kind = "post" =>
          /\ req[s].role \in user_role \ {"AMM"}
          /\ req[s].txn = "open"
          /\ req[s].conn = "held"

\* a nurse's POST is inside its transaction while a doctor's was committed
C19_Witness ==
    /\ sent.kind = "post" /\ sent.role = "DOC" /\ sent.txn = "committed"
    /\ \E s \in Slots : req[s].kind = "post" /\ req[s].role = "INF"
                          /\ req[s].txn = "open"

\* the year a bracelet starts with and the sequence number it ends with
BraceletYear(b) == ParseInt(SubSeq(b, 1, Len(b) - PadWidth - 1))

BraceletNumber(b) == ParseInt(SubSeq(b, Len(b) - PadWidth + 1, Len(b)))

\* C20: the bracelet a POST computes in year Y has the year Y and the number
\* of existing bracelets of year Y plus one, whatever the number of
\* bracelets of other years; with none of year Y it is Y-0001
C20_YearScoped ==
    [][\A s \in Slots : (req[s].pc = "count" /\ req'[s].pc = "insert_admission") =>
          LET y == req[s].year
              n == Cardinality({ a \in admissions : BraceletYear(a.braccialetto) = y })
              b == req'[s].braccialetto
          IN  /\ BraceletYear(b) = y
              /\ BraceletNumber(b) = n + 1
              /\ n = 0 => b = ToDigits(y) \o <<"-", "0", "0", "0", "1">>]_vars

\* the first admission of the year after the seeded one was committed with
\* number 0001 while the seeded year has its bracelets
C20_Witness ==
    /\ \E a \in admissions :
          /\ a \in sent.rows
          /\ a.braccialetto = ToDigits(SeedYear + 1) \o <<"-", "0", "0", "0", "1">>
    /\ Cardinality({ a \in admissions : BraceletYear(a.braccialetto) = SeedYear }) >= 2

\* the text of each year of the model
YearText == [y \in SeedYear..(SeedYear + MaxNewYear) |-> ToDigits(y)]

\* the committed admissions whose bracelet starts with year y
AdmissionsOfYear(y) ==
    { x \in admissions : SubSeq(x.braccialetto, 1, Len(YearText[y])) = YearText[y] }

\* the sequence numbers of the committed bracelets of year y
NumbersOfYear(y) == { BraceletNumber(a.braccialetto) : a \in AdmissionsOfYear(y) }

\* C21: in every state and for every year, the sequence numbers of the
\* committed bracelets of the year are 1..n without gaps, n being the number
\* of admissions of the year: a POST that was rolled back used up none
C21_NoGaps ==
    \A y \in DOMAIN YearText :
        NumbersOfYear(y) = 1..Cardinality(AdmissionsOfYear(y))

\* a rejected INSERT used up a value of the sequence of admissions.id, and
\* an admission was committed besides the seeded ones
C21_Witness ==
    /\ admSeq > Cardinality(admissions)
    /\ Cardinality(admissions) > Cardinality(SeedAdmissions)
    /\ sent.kind = "post"
    /\ sent.txn = "rolledback"

\* C22: in every state the stato of every admission, committed or written
\* by a transaction in progress, is a label of admission_status
C22_StatoInEnum ==
    /\ \A a \in admissions : a.stato \in admission_status
    /\ \A s \in Slots : \A a \in req[s].pendA : a.stato \in admission_status

\* a PATCH with a target outside the enumeration was answered 400 after a
\* POST had committed a new admission
C22_Witness ==
    /\ sent.kind = "patch"
    /\ sent.nuovoStato \notin admission_status
    /\ sent.status = 400
    /\ \E a \in admissions : a \notin SeedAdmissions /\ a.id = sent.id

\* C23: in every state every committed admission references a committed
\* patient, whatever the interleaving of POST requests, commits and rollbacks
C23_PatientExists ==
    \A a \in admissions : \E p \in patients : p.id = a.patient_id

\* a POST that had inserted a patient was rolled back while another POST was
\* committed: the patient of the first is not in the table, and the
\* sequence of patients.id has moved past the rows there are
C23_Witness ==
    /\ sent.kind = "post"
    /\ sent.txn = "rolledback"
    /\ sent.pendP # {}
    /\ sent.pendP \cap patients = {}
    /\ \E a \in admissions : a \notin SeedAdmissions

\* C24: a PATCH whose target is not one of the five states is answered 400
\* before any statement is sent: every row of admissions and of patients is
\* what it was, for an identifier that exists and for one that does not
C24_RejectedBeforeStore ==
    [][\A s \in Slots :
          (/\ req[s].pc = "idle"
           /\ req'[s].kind = "patch"
           /\ req'[s].nuovoStato \notin admission_status) =>
              /\ req'[s].pc = "done"
              /\ req'[s].status = 400
              /\ req'[s].applied = 0
              /\ req'[s].rows = {}
              /\ admissions' = admissions
              /\ patients' = patients]_vars

\* two such requests were answered, one for a seeded admission and one for
\* an identifier no admission has
C24_Witness ==
    \E s1, s2 \in Slots :
        /\ req[s1].kind = "patch" /\ req[s2].kind = "patch"
        /\ req[s1].nuovoStato \notin admission_status
        /\ req[s2].nuovoStato \notin admission_status
        /\ req[s1].status = 400 /\ req[s2].status = 400
        /\ \E a \in admissions : a.id = req[s1].id
        /\ \A a \in admissions : a.id # req[s2].id
        /\ admissions = SeedAdmissions

\* C25: a POST that got a connection holds it, with its transaction open,
\* through every statement; the transaction is ended once, by COMMIT or by
\* ROLLBACK, before the connection is released; and the connection of every
\* answered POST has been released once
C25_ReleasedOnce ==
    /\ \A s \in Slots : req[s].kind = "post" =>
          /\ req[s].conn = "held"
          /\ req[s].begins = 1
          /\ req[s].releases = 0
          /\ IF req[s].pc = "release"
             THEN req[s].txn \in {"committed", "rolledback"} /\ req[s].ends = 1
             ELSE req[s].txn = "open" /\ req[s].ends = 0
    /\ (sent.kind = "post" /\ sent.begins = 1) =>
          /\ sent.conn = "released"
          /\ sent.releases = 1
          /\ sent.ends = 1
          /\ sent.txn = (IF sent.status = 201 THEN "committed" ELSE "rolledback")
    /\ (sent.kind = "post" /\ sent.begins = 0) =>
          sent.conn = "none" /\ sent.releases = 0 /\ sent.ends = 0

\* a rolled-back POST released its connection while another POST, its
\* transaction ended, has not released its own yet
C25_Witness ==
    /\ sent.kind = "post"
    /\ sent.txn = "rolledback"
    /\ sent.releases = 1
    /\ \E s \in Slots : req[s].pc = "release" /\ req[s].txn = "committed"

TypeOK ==
    /\ \A s \in Slots : req[s].pc \in {"idle", "select_patient", "insert_patient", "year",
                                      "count", "insert_admission", "commit", "rollback"}
    /\ sent.pc \in {"idle", "done"}
    /\ started \in 0..MaxReq

====
